---- MODULE Spec2Model ----
(***************************************************************************)
(* Model of the comment-pair pipeline of the Chatbot notebook: the record  *)
(* normalizer format_data, the filter acceptable, the lookups find_parent  *)
(* and find_existing_score, the three statement builders, the batching     *)
(* writer transaction_bldr, the ingest loop of the __main__ cell and the   *)
(* loop that exports the stored pairs to the test and train files.         *)
(*                                                                         *)
(* A Python str is modelled as a sequence of one-character strings, so     *)
(* that replace, split and len are computed character by character.        *)
(* Comment and submission names are numbers: 0 stands for a submission     *)
(* ("t3_..."), k > 0 for the k-th comment of the dump ("t1_...").          *)
(***************************************************************************)
EXTENDS Integers, Sequences, FiniteSets, TLC

VARIABLES
    table,            \* rows of parent_reply that have been committed
    sql_transaction,  \* the global list of pending statements
    row_counter,      \* records read
    paired_rows,      \* insert-with-parent statements issued
    pc,               \* "reading" inside the for loop, "done" after it,
                      \* "crashed" when an exception has ended the cell;
                      \* "rereading" and "redone" when the cell is run again
    file,             \* the records read so far, in arrival order
    enq,              \* statements passed to transaction_bldr by the last record
    flushed,          \* statements executed by the flush of the last record, if any
    raised,           \* whether the query of find_parent, and that of
                      \* find_existing_score, raised for the last record
    data,             \* argument of the last call of format_data / acceptable
    out,              \* its result (a string for format_data, a boolean for acceptable)
    again,            \* format_data applied to out
    tpc,              \* "idle", "formatted", "reformatted" or "judged"
    last_unix,        \* the timestamp the next page starts after
    cur_length,       \* the number of rows of the last page
    counter,          \* pages written
    test_done,        \* whether the test files have been written
    df,               \* the last page read, a sequence of rows
    test_from,        \* the characters of ../data/test.from
    test_to,          \* the characters of ../data/test.to
    train_from,       \* the characters of ../data/train.from
    train_to,         \* the characters of ../data/train.to
    xpc               \* "paging" inside the while loop, "done" after it,
                      \* "crashed" when an exception has ended the cell

ingestVars == <<table, sql_transaction, row_counter, paired_rows, pc, file, enq,
                flushed, raised>>
textVars == <<data, out, again, tpc>>
fileVars == <<test_from, test_to, train_from, train_to>>
exportVars == <<last_unix, cur_length, counter, test_done, df, fileVars, xpc>>
vars == <<ingestVars, textVars, exportVars>>

-----------------------------------------------------------------------------
(* Bounds of the model *)

\* longest string enumerated exhaustively as an argument of the text functions
MaxLen == 4
\* longest dump the ingest loop reads
MaxRecords == 4
\* stands for the 1000 of transaction_bldr, which no bounded run can fill:
\* the writer flushes when the list holds more than this many statements
FlushThreshold == 1
\* most rows of a table given to the export loop
MaxExportRows == 5
\* stands for the 5000 of the export loop: the rows of a page
limit == 2

(* Constants of the program *)

\* if score >= 2
MinScore == 2
\* len(data.split(' ')) > 50
MaxWords == 50
\* len(data) > 1000
MaxChars == 1000

-----------------------------------------------------------------------------
(* Strings *)

NEWLINECHAR == <<" ", "n", "e", "w", "l", "i", "n", "e", "c", "h", "a", "r", " ">>
DELETED == <<"[", "d", "e", "l", "e", "t", "e", "d", "]">>
REMOVED == <<"[", "r", "e", "m", "o", "v", "e", "d", "]">>

\* str.replace(old, new): the non-overlapping occurrences of old, found left
\* to right, are replaced by new
RECURSIVE replace(_, _, _)
replace(s, old, new) ==
    IF Len(s) < Len(old) THEN s
    ELSE IF SubSeq(s, 1, Len(old)) = old
         THEN new \o replace(SubSeq(s, Len(old) + 1, Len(s)), old, new)
         ELSE <<Head(s)>> \o replace(Tail(s), old, new)

\* str.split(sep) for a one-character sep: the pieces between the
\* occurrences of sep, empty pieces included; always at least one piece
split(s, sep) ==
    LET cuts == {i \in 1..Len(s) : s[i] = sep}
        n == Cardinality(cuts)
        cut(k) == IF k = 0 THEN 0
                  ELSE IF k = n + 1 THEN Len(s) + 1
                  ELSE CHOOSE i \in cuts : Cardinality({j \in cuts : j <= i}) = k
    IN  <<>> \o [k \in 1..(n + 1) |-> SubSeq(s, cut(k - 1) + 1, cut(k) - 1)]

\* a plausible slip: the line feed left in the body
format_data_cr(d) ==
    replace(replace(d, <<"\r">>, NEWLINECHAR), <<"\"", "\"">>, <<"'">>)

\* a plausible slip: the carriage return left in the body
format_data_lf(d) ==
    replace(replace(d, <<"\n">>, NEWLINECHAR), <<"\"", "\"">>, <<"'">>)

\* a plausible slip: the doubled quote collapsed to a double quote
format_data_dq(d) ==
    replace(replace(replace(d, <<"\n">>, NEWLINECHAR), <<"\r">>, NEWLINECHAR),
            <<"\"", "\"">>, <<"\"">>)

format_data(d) ==
    replace(replace(replace(d, <<"\n">>, NEWLINECHAR), <<"\r">>, NEWLINECHAR),
            <<"\"", "\"">>, <<"'">>)

acceptable(d) ==
    IF Len(split(d, " ")) > MaxWords \/ Len(d) < 1 THEN FALSE
    ELSE IF Len(d) > MaxChars THEN FALSE
    ELSE IF d = DELETED THEN FALSE
    ELSE IF d = REMOVED THEN FALSE
    ELSE TRUE

-----------------------------------------------------------------------------
(* Arguments of the text functions *)

TextChars == {"a", " ", "\t", "\n", "\r", "\"", "'"}

RECURSIVE StringsUpTo(_)
StringsUpTo(n) ==
    IF n = 0 THEN {<<>>}
    ELSE LET shorter == StringsUpTo(n - 1)
         IN  shorter \cup {Append(s, c) : s \in {t \in shorter : Len(t) = n - 1}, c \in TextChars}

ShortStrings == StringsUpTo(MaxLen)

\* n copies of unit
Rep(unit, n) == <<>> \o [i \in 1..(n * Len(unit)) |-> unit[((i - 1) % Len(unit)) + 1]]

\* n words "a" joined by sep
Words(n, sep) == IF n = 0 THEN <<>> ELSE Rep(<<"a">> \o sep, n - 1) \o <<"a">>

Separators == {<<" ">>, <<" ", " ">>, <<"\t">>}

\* strings at the limits of acceptable
LimitStrings ==
    {Words(n, sep) : n \in {MaxWords \div 2 + 1, MaxWords, MaxWords + 1}, sep \in Separators}
    \cup {Rep(<<"a">>, n) : n \in {MaxChars, MaxChars + 1}}
    \cup {Rep(<<" ">>, MaxWords - 1), Rep(<<" ">>, MaxWords)}
    \cup {DELETED, REMOVED}

JudgedStrings == ShortStrings \cup LimitStrings

-----------------------------------------------------------------------------
(* Values read from and written to the store *)

\* Python's False as returned by the lookups, and SQL's NULL in a row, are
\* the empty tuple; a value v that is present is the one-element tuple <<v>>
Absent == <<>>
Present(v) == <<v>>

\* "if existing_comment_score:" is false for False and for 0
ScoreIsTrue(found) == found # Absent /\ found[1] # 0
\* "if parent_data:" is false for False and for the empty string
TextIsTrue(found) == found # Absent /\ found[1] # <<>>

\* a plausible slip: the row is looked up by the wrong key column
find_parent_byparent(pid, tbl) ==
    IF \E r \in tbl : r.parent_id = pid
    THEN Present((CHOOSE r \in tbl : r.parent_id = pid).comment)
    ELSE Absent

\* SELECT comment FROM parent_reply WHERE comment_id = pid LIMIT 1
find_parent(pid, tbl) ==
    IF \E r \in tbl : r.comment_id = pid
    THEN Present((CHOOSE r \in tbl : r.comment_id = pid).comment)
    ELSE Absent

\* SELECT score FROM parent_reply WHERE parent_id = pid LIMIT 1
find_existing_score(pid, tbl) ==
    IF \E r \in tbl : r.parent_id = pid
    THEN Present((CHOOSE r \in tbl : r.parent_id = pid).score)
    ELSE Absent

\* try: ... except Exception as e: return False
Caught(result, query_raises) == IF query_raises THEN Absent ELSE result

-----------------------------------------------------------------------------
(* Statements.  A statement records the builder that made it and the       *)
(* arguments of the call.  The INSERT builders format the arguments into   *)
(* the text; the UPDATE text has eight "?" placeholders and no "{}", so    *)
(* format leaves it as it is and the arguments are not part of it.         *)

Statement(kind, comment_id, parent_id, parent, comment, subreddit, created_utc, score) ==
    [kind |-> kind, parent_id |-> parent_id, comment_id |-> comment_id,
     parent |-> parent, comment |-> comment, subreddit |-> subreddit,
     unix |-> created_utc, score |-> score]

sql_insert_replace_comment(comment_id, parent_id, parent, comment, subreddit, created_utc, score) ==
    Statement("replace", comment_id, parent_id, parent, comment, subreddit, created_utc, score)

\* a plausible slip: the two bodies in each other's column
sql_insert_has_parent_swapped(comment_id, parent_id, parent, comment, subreddit, created_utc, score) ==
    Statement("has_parent", comment_id, parent_id, Present(comment), parent[1], subreddit,
              created_utc, score)

sql_insert_has_parent(comment_id, parent_id, parent, comment, subreddit, created_utc, score) ==
    Statement("has_parent", comment_id, parent_id, parent, comment, subreddit, created_utc, score)

\* the parent column is not named: the row gets NULL there
sql_insert_no_parent(comment_id, parent_id, comment, subreddit, created_utc, score) ==
    Statement("no_parent", comment_id, parent_id, Absent, comment, subreddit, created_utc, score)

\* the row an INSERT statement adds
RowOf(s) ==
    [parent_id |-> s.parent_id, comment_id |-> s.comment_id, parent |-> s.parent,
     comment |-> s.comment, subreddit |-> s.subreddit, unix |-> s.unix, score |-> s.score]

\* a plausible slip: a table created without PRIMARY KEY on parent_id
ViolatesKey_nopk(s, tbl) == \E r \in tbl : r.comment_id = s.comment_id

\* parent_id TEXT PRIMARY KEY, comment_id TEXT UNIQUE
ViolatesKey(s, tbl) ==
    \E r \in tbl : r.parent_id = s.parent_id \/ r.comment_id = s.comment_id

\* c.execute(s) raises: for the UPDATE because no bindings are supplied for
\* its placeholders, for an INSERT when a key constraint fails
Raises(s, tbl) ==
    IF s.kind = "replace" THEN TRUE ELSE ViolatesKey(s, tbl)

\* a plausible slip: INSERT OR REPLACE, which removes the rows in the way
execute_upsert(s, tbl) ==
    IF s.kind = "replace" THEN tbl
    ELSE {r \in tbl : r.parent_id # s.parent_id /\ r.comment_id # s.comment_id}
         \cup {RowOf(s)}

\* try: c.execute(s)  except: pass
execute(s, tbl) == IF Raises(s, tbl) THEN tbl ELSE tbl \cup {RowOf(s)}

\* a plausible slip: the try around the loop, so that the first failure
\* ends the batch
RECURSIVE executeAll_abort(_, _)
executeAll_abort(stmts, tbl) ==
    IF stmts = <<>> \/ Raises(Head(stmts), tbl) THEN tbl
    ELSE executeAll_abort(Tail(stmts), tbl \cup {RowOf(Head(stmts))})

\* a plausible slip: the list executed from its end
RECURSIVE executeAll_lifo(_, _)
executeAll_lifo(stmts, tbl) ==
    IF stmts = <<>> THEN tbl
    ELSE execute(Head(stmts), executeAll_lifo(Tail(stmts), tbl))

\* for s in sql_transaction: ...
RECURSIVE executeAll(_, _)
executeAll(stmts, tbl) ==
    IF stmts = <<>> THEN tbl
    ELSE executeAll(Tail(stmts), execute(Head(stmts), tbl))

\* a plausible slip: flush as soon as the threshold is reached
BatchFull_ge(n) == n >= FlushThreshold

\* if len(sql_transaction) > 1000
BatchFull(n) == n > FlushThreshold

\* the list, the committed table and the executed batch after the call
transaction_bldr(sql, buf, tbl) ==
    LET appended == Append(buf, sql)
    IN  IF BatchFull(Len(appended))
        THEN [buf |-> <<>>, tbl |-> executeAll(appended, tbl), flushed |-> appended]
        ELSE [buf |-> appended, tbl |-> tbl, flushed |-> <<>>]

-----------------------------------------------------------------------------
(* The body of the for loop *)

\* a plausible slip: no threshold on the score
ScoreQualifies_any(score) == TRUE

\* if score >= 2
ScoreQualifies(score) == score >= MinScore

\* a plausible slip: a tie replaces the stored reply
Beats_ge(score, existing_comment_score) == score >= existing_comment_score

\* if score > existing_comment_score
Beats(score, existing_comment_score) == score > existing_comment_score

\* a plausible slip: the two insert branches exchanged
InsertKind_swapped(parent_data) == IF TextIsTrue(parent_data) THEN "no_parent" ELSE "has_parent"

\* if parent_data: sql_insert_has_parent ... else: sql_insert_no_parent
InsertKind(parent_data) == IF TextIsTrue(parent_data) THEN "has_parent" ELSE "no_parent"

\* a plausible slip: the replace branch without the filter
Branch_nofilter(score, body, parent_data, existing_comment_score) ==
    IF ScoreQualifies(score)
    THEN IF ScoreIsTrue(existing_comment_score)
         THEN IF Beats(score, existing_comment_score[1]) THEN "replace" ELSE "none"
         ELSE IF acceptable(body) THEN InsertKind(parent_data) ELSE "none"
    ELSE "none"

\* which builder the nested ifs call for the record, "none" when they call none
Branch(score, body, parent_data, existing_comment_score) ==
    IF ScoreQualifies(score)
    THEN IF ScoreIsTrue(existing_comment_score)
         THEN IF Beats(score, existing_comment_score[1])
              THEN IF acceptable(body) THEN "replace" ELSE "none"
              ELSE "none"
         ELSE IF acceptable(body) THEN InsertKind(parent_data) ELSE "none"
    ELSE "none"

\* the statements the record passes to transaction_bldr, given whether the
\* queries of the two lookups raise
Enqueued(row, tbl, parent_raises, score_raises) ==
    LET parent_id == row.parent_id
        body == format_data(row.body)
        created_utc == row.created_utc
        score == row.score
        comment_id == row.name
        subreddit == row.subreddit
        parent_data == Caught(find_parent(parent_id, tbl), parent_raises)
        existing_comment_score == Caught(find_existing_score(parent_id, tbl), score_raises)
        branch == Branch(score, body, parent_data, existing_comment_score)
    IN  IF branch = "replace"
        THEN <<sql_insert_replace_comment(comment_id, parent_id, parent_data, body,
                                          subreddit, created_utc, score)>>
        ELSE IF branch = "has_parent"
        THEN <<sql_insert_has_parent(comment_id, parent_id, parent_data, body,
                                     subreddit, created_utc, score)>>
        ELSE IF branch = "no_parent"
        THEN <<sql_insert_no_parent(comment_id, parent_id, body, subreddit,
                                    created_utc, score)>>
        ELSE <<>>

-----------------------------------------------------------------------------
(* The dump *)

\* 0 is a submission, 1 the first comment of the dump
ParentIds == {0, 1}
RawBodies == {<<"h", "i">>, <<"y", "o", "\n">>, DELETED}
Scores == {1, 2, 3}

\* the k-th line of the dump: a comment with a name of its own, replying to
\* something else; the dump is in the order of creation
Records(k) ==
    {[parent_id |-> p, name |-> k, body |-> b, created_utc |-> k, score |-> s,
      subreddit |-> "r"] : p \in ParentIds \ {k}, b \in RawBodies, s \in Scores}

\* the keys the loop reads from a line
RequiredKeys == {"parent_id", "body", "created_utc", "score", "name", "subreddit"}
Complete(row) == RequiredKeys \subseteq DOMAIN row

\* a k-th line that would be stored but lacks a key
Incomplete(k) ==
    {[parent_id |-> 0, name |-> k, body |-> <<"h", "i">>, created_utc |-> k, score |-> 3]}

\* the lines on which the lookups are made to fail
LookupRecords(k) ==
    {row \in Records(k) : row.score >= MinScore /\ row.body = <<"h", "i">>}

-----------------------------------------------------------------------------
(* The ingest loop *)

\* the body of the loop on a line that has every key
LoopBody(row, parent_raises, score_raises) ==
    LET stmts == Enqueued(row, table, parent_raises, score_raises)
        after == IF stmts = <<>>
                 THEN [buf |-> sql_transaction, tbl |-> table, flushed |-> <<>>]
                 ELSE transaction_bldr(stmts[1], sql_transaction, table)
    IN  /\ row_counter' = row_counter + 1
        /\ enq' = stmts
        /\ sql_transaction' = after.buf
        /\ table' = after.tbl
        /\ flushed' = after.flushed
        /\ paired_rows' = IF stmts # <<>> /\ stmts[1].kind = "has_parent"
                          THEN paired_rows + 1 ELSE paired_rows
        /\ raised' = <<parent_raises, score_raises>>
        /\ pc' = pc

\* the iteration on a line that has every key
Iteration(row, parent_raises, score_raises) ==
    /\ file' = Append(file, row)
    /\ LoopBody(row, parent_raises, score_raises)

\* the iteration on a line that lacks a key: row[...] raises KeyError after
\* row_counter += 1, nothing catches it and the cell stops
KeyErrorStops(row) ==
    /\ file' = Append(file, row)
    /\ row_counter' = row_counter + 1
    /\ enq' = <<>>
    /\ flushed' = <<>>
    /\ raised' = <<FALSE, FALSE>>
    /\ pc' = "crashed"
    /\ UNCHANGED <<table, sql_transaction, paired_rows>>

\* one iteration of "for row in f"
ReadRecord ==
    /\ pc = "reading"
    /\ Len(file) < MaxRecords
    /\ \E row \in Records(Len(file) + 1) \cup Incomplete(Len(file) + 1) :
        IF Complete(row) THEN Iteration(row, FALSE, FALSE) ELSE KeyErrorStops(row)
    /\ UNCHANGED textVars
    /\ UNCHANGED exportVars

\* one iteration in which the store may fail to answer either lookup
ReadRecordLookups ==
    /\ pc = "reading"
    /\ Len(file) < MaxRecords
    /\ \E row \in LookupRecords(Len(file) + 1) :
        \E parent_raises \in BOOLEAN, score_raises \in BOOLEAN :
            Iteration(row, parent_raises, score_raises)
    /\ UNCHANGED textVars
    /\ UNCHANGED exportVars

\* the file is exhausted and the loop ends
EndOfStream ==
    /\ pc = "reading"
    /\ pc' = "done"
    /\ UNCHANGED <<table, sql_transaction, row_counter, paired_rows, file, enq,
                   flushed, raised>>
    /\ UNCHANGED textVars
    /\ UNCHANGED exportVars

\* the __main__ cell is run again on the same dump after a run that ended:
\* create_table finds the table, the counters restart; the list of pending
\* statements is the one left by the first run in the same kernel, and is
\* empty in a new one
RunAgain ==
    /\ pc = "done"
    /\ pc' = "rereading"
    /\ row_counter' = 0
    /\ paired_rows' = 0
    /\ sql_transaction' \in {sql_transaction, <<>>}
    /\ enq' = <<>>
    /\ flushed' = <<>>
    /\ UNCHANGED <<table, file, raised>>
    /\ UNCHANGED textVars
    /\ UNCHANGED exportVars

\* one iteration of the second run, on the next line of the same dump
RereadRecord ==
    /\ pc = "rereading"
    /\ row_counter < Len(file)
    /\ LoopBody(file[row_counter + 1], FALSE, FALSE)
    /\ UNCHANGED file
    /\ UNCHANGED textVars
    /\ UNCHANGED exportVars

\* the second run comes to the end of the dump
EndOfRerun ==
    /\ pc = "rereading"
    /\ row_counter = Len(file)
    /\ pc' = "redone"
    /\ UNCHANGED <<table, sql_transaction, row_counter, paired_rows, file, enq,
                   flushed, raised>>
    /\ UNCHANGED textVars
    /\ UNCHANGED exportVars

Next == ReadRecord \/ EndOfStream

NextRerun == ReadRecord \/ EndOfStream \/ RunAgain \/ RereadRecord \/ EndOfRerun

NextLookups == ReadRecordLookups \/ EndOfStream

-----------------------------------------------------------------------------
(* The ingest state after the cells above the loop have run *)

InitIngest ==
    /\ table = {}
    /\ sql_transaction = <<>>
    /\ row_counter = 0
    /\ paired_rows = 0
    /\ pc = "reading"
    /\ file = <<>>
    /\ enq = <<>>
    /\ flushed = <<>>
    /\ raised = <<FALSE, FALSE>>

InitText ==
    /\ data = <<>>
    /\ out = <<>>
    /\ again = <<>>
    /\ tpc = "idle"

\* limit = 5000 ... test_done = False; the files do not exist yet
InitExporter ==
    /\ last_unix = 0
    /\ cur_length = limit
    /\ counter = 0
    /\ test_done = FALSE
    /\ df = <<>>
    /\ test_from = <<>>
    /\ test_to = <<>>
    /\ train_from = <<>>
    /\ train_to = <<>>
    /\ xpc = "paging"

Init == InitIngest /\ InitText /\ InitExporter

Spec == Init /\ [][Next]_vars

SpecLookups == Init /\ [][NextLookups]_vars

SpecRerun == Init /\ [][NextRerun]_vars

-----------------------------------------------------------------------------
(* Calls of the text functions *)

Format ==
    /\ tpc = "idle"
    /\ \E s \in ShortStrings :
        /\ data' = s
        /\ out' = format_data(s)
    /\ tpc' = "formatted"
    /\ UNCHANGED again
    /\ UNCHANGED ingestVars
    /\ UNCHANGED exportVars

Reformat ==
    /\ tpc = "formatted"
    /\ again' = format_data(out)
    /\ tpc' = "reformatted"
    /\ UNCHANGED <<data, out>>
    /\ UNCHANGED ingestVars
    /\ UNCHANGED exportVars

Judge ==
    /\ tpc = "idle"
    /\ \E s \in JudgedStrings :
        /\ data' = s
        /\ out' = acceptable(s)
    /\ tpc' = "judged"
    /\ UNCHANGED again
    /\ UNCHANGED ingestVars
    /\ UNCHANGED exportVars

NextText == Judge \/ Format \/ Reformat

SpecText == Init /\ [][NextText]_vars

-----------------------------------------------------------------------------
(* The export loop.  It reads the database it is given: any table that     *)
(* meets the keys of create_table.  Here the rows are a chain, row k        *)
(* being comment k replying to comment k - 1, in the order of creation.    *)

Digits == <<"0", "1", "2", "3", "4", "5", "6", "7", "8", "9">>

\* the stored bodies of the comments 0, 1, ...: replies of two lines
ReplyBodies ==
    [k \in 0..MaxExportRows |-> format_data(<<"r", "\n", Digits[k + 1]>>)]
ReplyBody(k) == ReplyBodies[k]

\* what a row holds besides its keys and its timestamp: a parent body and a
\* score, no parent body, or a score of zero
RowClasses == {"paired", "unpaired", "unscored"}

ExportRow(k, unix, class) ==
    [parent_id |-> k - 1, comment_id |-> k,
     parent |-> IF class = "unpaired" THEN Absent ELSE Present(ReplyBody(k - 1)),
     comment |-> ReplyBody(k), subreddit |-> "r", unix |-> unix,
     score |-> IF class = "unscored" THEN 0 ELSE MinScore]

\* timestamps of n comments in the order of creation: whole seconds from 1,
\* so that neighbours may share one
TimeStamps(n) ==
    {[k \in 1..n |-> 1 + Cardinality({j \in 2..k : later[j] = 1})] :
        later \in [2..n -> {0, 1}]}

\* the tables of n rows
ExportTables(n) ==
    {{ExportRow(k, t[k], c[k]) : k \in 1..n} :
        t \in TimeStamps(n), c \in [1..n -> RowClasses]}

\* a plausible slip: the condition on the score left out
Selected_anyscore(tbl, last) ==
    {r \in tbl : r.unix > last /\ r.parent # Absent}

\* WHERE unix > {} AND parent NOT NULL AND score > 0
Selected(tbl, last) ==
    {r \in tbl : r.unix > last /\ r.parent # Absent /\ r.score > 0}

\* ... ORDER BY unix ASC LIMIT {}: the results the query may return, the
\* order of rows of equal unix being left to the database
read_sql(tbl, last) ==
    LET sel == Selected(tbl, last)
        m == IF Cardinality(sel) < limit THEN Cardinality(sel) ELSE limit
    IN  {<<>> \o page : page \in
            {q \in [1..m -> sel] :
                /\ \A i, j \in 1..m : i < j => (q[i] # q[j] /\ q[i].unix <= q[j].unix)
                /\ \A r \in sel :
                    (\A i \in 1..m : q[i] # r) => \A i \in 1..m : q[i].unix <= r.unix}}

\* for content in contents: f.write(content + '\n')
RECURSIVE write(_, _)
write(f, contents) ==
    IF contents = <<>> THEN f
    ELSE write(f \o Head(contents) \o <<"\n">>, Tail(contents))

\* df['parent'].values and df['comment'].values
ParentColumn(page) == <<>> \o [i \in 1..Len(page) |-> page[i].parent[1]]
CommentColumn(page) == <<>> \o [i \in 1..Len(page) |-> page[i].comment]

\* a plausible slip: test_done not consulted, every page goes to the test files
Target_test(done) == "test"

\* if not test_done: ... else: ...
Target(done) == IF ~done THEN "test" ELSE "train"

\* one iteration of the while loop on a page that has rows
ExportPage ==
    /\ xpc = "paging"
    /\ cur_length = limit
    /\ \E page \in read_sql(table, last_unix) :
        /\ page # <<>>
        /\ df' = page
        /\ last_unix' = page[Len(page)].unix
        /\ cur_length' = Len(page)
        /\ IF Target(test_done) = "test"
           THEN /\ test_from' = write(test_from, ParentColumn(page))
                /\ test_to' = write(test_to, CommentColumn(page))
                /\ test_done' = TRUE
                /\ UNCHANGED <<train_from, train_to>>
           ELSE /\ train_from' = write(train_from, ParentColumn(page))
                /\ train_to' = write(train_to, CommentColumn(page))
                /\ UNCHANGED <<test_from, test_to, test_done>>
    /\ counter' = counter + 1
    /\ UNCHANGED xpc
    /\ UNCHANGED ingestVars
    /\ UNCHANGED textVars

\* one iteration on a page without rows: df.tail(1)['unix'].values is empty,
\* its element 0 raises IndexError, nothing catches it and the cell stops
ExportEmptyPage ==
    /\ xpc = "paging"
    /\ cur_length = limit
    /\ <<>> \in read_sql(table, last_unix)
    /\ df' = <<>>
    /\ xpc' = "crashed"
    /\ UNCHANGED <<last_unix, cur_length, counter, test_done, fileVars>>
    /\ UNCHANGED ingestVars
    /\ UNCHANGED textVars

\* while cur_length == limit is false
ExportEnds ==
    /\ xpc = "paging"
    /\ cur_length # limit
    /\ xpc' = "done"
    /\ UNCHANGED <<last_unix, cur_length, counter, test_done, df, fileVars>>
    /\ UNCHANGED ingestVars
    /\ UNCHANGED textVars

NextExport == ExportPage \/ ExportEmptyPage \/ ExportEnds

\* the export cell is run on a database made earlier
InitExport ==
    /\ \E n \in 0..MaxExportRows : table \in ExportTables(n)
    /\ sql_transaction = <<>>
    /\ row_counter = 0
    /\ paired_rows = 0
    /\ pc = "done"
    /\ file = <<>>
    /\ enq = <<>>
    /\ flushed = <<>>
    /\ raised = <<FALSE, FALSE>>
    /\ InitText
    /\ InitExporter

SpecExport == InitExport /\ [][NextExport]_vars

-----------------------------------------------------------------------------
(* Vocabulary of the properties *)

Last(seq) == seq[Len(seq)]

\* the record passes the score threshold and the filter
Qualifies(row) ==
    Complete(row) /\ row.score >= MinScore /\ acceptable(format_data(row.body))

\* the lines of the dump read so far that are qualifying replies to p
RepliesTo(p) == {i \in 1..Len(file) : file[i].parent_id = p /\ Qualifies(file[i])}

\* the highest-scoring of them, the earliest-arrived among equals
BestReply(p) ==
    CHOOSE i \in RepliesTo(p) :
        \A j \in RepliesTo(p) :
            \/ file[j].score < file[i].score
            \/ file[j].score = file[i].score /\ i <= j

RowsFor(p) == {r \in table : r.parent_id = p}

\* the row holds the reply of line i
HoldsReply(r, i) ==
    /\ r.comment_id = file[i].name
    /\ r.comment = format_data(file[i].body)
    /\ r.score = file[i].score

\* the loop has ended and nothing is pending
Settled == pc = "done" /\ sql_transaction = <<>>

\* the step reads a line of the dump
Reads == file' # file

Whitespace == {" ", "\t", "\n", "\r"}

\* the number of words of s, words being separated by runs of whitespace
WordCount(s) ==
    Cardinality({i \in 1..Len(s) :
                    /\ s[i] \notin Whitespace
                    /\ (i = 1 \/ s[i - 1] \in Whitespace)})

\* the lines of a file whose characters are f
Lines(f) == LET pieces == split(f, "\n") IN SubSeq(pieces, 1, Len(pieces) - 1)

\* the rows the export is to write
Wanted == {r \in table : r.parent # Absent /\ r.score > 0}

\* the reply lines written, the test file first
Exported == Lines(test_to) \o Lines(train_to)

\* the row a reply line comes from
RowOfLine(line) == CHOOSE r \in table : r.comment = line

\* line i of the prompt file and line i of the reply file come from one row
Aligned(from, to) ==
    /\ Len(Lines(from)) = Len(Lines(to))
    /\ \A i \in 1..Len(Lines(to)) :
        \E r \in table : r.parent = Present(Lines(from)[i]) /\ r.comment = Lines(to)[i]

-----------------------------------------------------------------------------
(* Properties *)

\* C1: once the loop has ended and no write is pending, every parent that
\* received a qualifying reply (score >= 2, acceptable normalized body) has
\* exactly one row, and the row holds the highest-scoring such reply, the
\* earliest-arrived one among those of highest score.
C1_BestReplyStored ==
    Settled =>
        \A p \in ParentIds :
            RepliesTo(p) # {} =>
                \E r \in table : RowsFor(p) = {r} /\ HoldsReply(r, BestReply(p))

\* C2: when a parent received exactly two qualifying replies and their
\* scores differ, the final row holds the body and the score of the
\* higher-scoring one, in whichever order the two arrived.
C2_HigherScoreWinsEitherOrder ==
    Settled =>
        \A p \in ParentIds :
            \A i, j \in RepliesTo(p) :
                (RepliesTo(p) = {i, j} /\ file[i].score > file[j].score) =>
                    \E r \in table :
                        /\ RowsFor(p) = {r}
                        /\ r.comment = format_data(file[i].body)
                        /\ r.score = file[i].score

\* C3: after a flush has executed a replace statement (the last statement
\* of the batch for its parent), the row of that parent carries the
\* candidate's reply identifier, parent body, reply body, community,
\* timestamp and score.
C3_ReplaceTakesEffect ==
    \A k \in 1..Len(flushed) :
        (/\ flushed[k].kind = "replace"
         /\ \A m \in (k + 1)..Len(flushed) : flushed[m].parent_id # flushed[k].parent_id)
        => \E r \in table :
            /\ r.parent_id = flushed[k].parent_id
            /\ r.comment_id = flushed[k].comment_id
            /\ r.parent = flushed[k].parent
            /\ r.comment = flushed[k].comment
            /\ r.subreddit = flushed[k].subreddit
            /\ r.unix = flushed[k].unix
            /\ r.score = flushed[k].score

\* C4: the committed table never holds two rows with the same
\* parent-reference identifier.
C4_OneRowPerParent ==
    \A r1, r2 \in table : r1.parent_id = r2.parent_id => r1 = r2

\* a flush has executed two inserts for one parent, and the parent has a row
C4_Witness ==
    \E i, j \in 1..Len(flushed) :
        /\ i < j
        /\ flushed[i].kind # "replace"
        /\ flushed[j].kind # "replace"
        /\ flushed[i].parent_id = flushed[j].parent_id
        /\ RowsFor(flushed[i].parent_id) # {}

\* C5: reading a record whose score is below 2 passes no statement to the
\* writer and leaves the pending list and the table as they were.
C5_BelowThresholdWritesNothing ==
    [][(Reads /\ Last(file').score < MinScore) =>
            (enq' = <<>> /\ sql_transaction' = sql_transaction /\ table' = table)]_vars

\* a record below the threshold, with an acceptable body, was read while
\* the table held rows and a statement was pending
C5_Witness ==
    /\ file # <<>>
    /\ Last(file).score < MinScore
    /\ acceptable(format_data(Last(file).body))
    /\ table # {}
    /\ sql_transaction # <<>>

\* C6: reading a record for whose parent the lookup finds a stored score
\* that the record's score does not strictly exceed leaves the pending
\* list, the table and paired_rows unchanged.
C6_NotGreaterWritesNothing ==
    [][(/\ Reads
        /\ find_existing_score(Last(file').parent_id, table) # Absent
        /\ Last(file').score <= find_existing_score(Last(file').parent_id, table)[1])
       => (/\ enq' = <<>>
           /\ sql_transaction' = sql_transaction
           /\ table' = table
           /\ paired_rows' = paired_rows)]_vars

\* a qualifying record was read whose score equals the score stored for
\* its parent by an earlier record
C6_Witness ==
    /\ file # <<>>
    /\ Qualifies(Last(file))
    /\ enq = <<>>
    /\ \E r \in table :
        /\ r.parent_id = Last(file).parent_id
        /\ r.comment_id # Last(file).name
        /\ r.score = Last(file).score

\* C7: reading a qualifying record for whose parent the lookup finds no
\* stored score passes exactly one statement to the writer: an
\* insert-with-parent carrying the resolved body, with paired_rows increased
\* by one, when find_parent returned a body; an insert-without-parent with
\* the parent unset, with paired_rows unchanged, when it returned absence.
C7_InsertBranches ==
    [][(/\ Reads
        /\ Qualifies(Last(file'))
        /\ find_existing_score(Last(file').parent_id, table) = Absent)
       => LET row == Last(file')
              found == find_parent(row.parent_id, table)
              expected == [kind |-> IF found # Absent THEN "has_parent" ELSE "no_parent",
                           parent_id |-> row.parent_id, comment_id |-> row.name,
                           parent |-> found, comment |-> format_data(row.body),
                           subreddit |-> row.subreddit, unix |-> row.created_utc,
                           score |-> row.score]
          IN  /\ enq' = <<expected>>
              /\ \/ sql_transaction' = Append(sql_transaction, expected)
                 \/ flushed' = Append(sql_transaction, expected)
              /\ paired_rows' = IF found # Absent THEN paired_rows + 1 ELSE paired_rows]_vars

\* the last record was inserted with the body of its committed parent,
\* which itself had been inserted without a parent
C7_Witness ==
    /\ enq # <<>>
    /\ enq[1].kind = "has_parent"
    /\ paired_rows = 1
    /\ \E r \in table :
        /\ r.comment_id = enq[1].parent_id
        /\ r.parent = Absent
        /\ enq[1].parent = Present(r.comment)

\* C8: acceptable(body) is true exactly when the body has at most 50
\* whitespace-separated words, between 1 and 1000 characters, and is neither
\* '[deleted]' nor '[removed]'.
C8_AcceptableIsThePolicy ==
    tpc = "judged" =>
        (out <=> (/\ WordCount(data) <= MaxWords
                  /\ Len(data) >= 1
                  /\ Len(data) <= MaxChars
                  /\ data # DELETED
                  /\ data # REMOVED))

\* C9: format_data applied to a result of format_data returns it unchanged.
C9_FormatIdempotent == tpc = "reformatted" => again = out

\* a string with a line break and a doubled quote was normalized twice
C9_Witness ==
    /\ tpc = "reformatted"
    /\ \E i \in 1..Len(data) : data[i] = "\n"
    /\ \E i \in 1..(Len(data) - 1) : data[i] = "\"" /\ data[i + 1] = "\""
    /\ out # data

\* C10: a call of transaction_bldr appends the statement and flushes exactly
\* when the list then holds more than the threshold: then every statement of
\* the list is executed (each insert is stored or meets a stored row with its
\* key, and nothing else is stored) and the list is emptied; otherwise the
\* table is unchanged and the list is longer by that statement.  So between
\* calls the list never holds more than the threshold.
C10_FlushOverThreshold ==
    /\ [](Len(sql_transaction) <= FlushThreshold)
    /\ [][(Reads /\ enq' # <<>>) =>
            LET appended == Append(sql_transaction, enq'[1])
                inserts == {k \in 1..Len(appended) : appended[k].kind # "replace"}
            IN  IF Len(appended) > FlushThreshold
                THEN /\ sql_transaction' = <<>>
                     /\ flushed' = appended
                     /\ \A k \in inserts :
                            \E r \in table' : \/ r.parent_id = appended[k].parent_id
                                              \/ r.comment_id = appended[k].comment_id
                     /\ table \subseteq table'
                     /\ table' \subseteq table \cup {RowOf(appended[k]) : k \in inserts}
                ELSE /\ sql_transaction' = appended
                     /\ flushed' = <<>>
                     /\ table' = table]_vars

\* a flush has stored a row while an earlier call had only appended
C10_Witness ==
    /\ Len(flushed) = FlushThreshold + 1
    /\ sql_transaction = <<>>
    /\ \E k \in 1..Len(flushed) : RowOf(flushed[k]) \in table

\* C11: when the loop has reached the end of the dump, the pending list is
\* empty: the trailing partial batch has been flushed, so that every
\* statement passed to the writer during the run has been executed.
C11_FinalFlush == pc = "done" => sql_transaction = <<>>

\* the k-th statement of the batch fails when executed after the ones before
\* it on the committed table tbl: it is the UPDATE, or a stored row or an
\* earlier insert of the batch has one of its keys
Skipped(batch, k, tbl) ==
    \/ batch[k].kind = "replace"
    \/ \E r \in tbl : \/ r.parent_id = batch[k].parent_id
                      \/ r.comment_id = batch[k].comment_id
    \/ \E j \in 1..(k - 1) :
        /\ batch[j].kind # "replace"
        /\ \/ batch[j].parent_id = batch[k].parent_id
           \/ batch[j].comment_id = batch[k].comment_id

\* C12: when a flush meets a statement that fails, only that statement is
\* skipped: every other statement of the batch is stored, the failing ones
\* leave no row, the committed rows stay, the list is emptied and the loop
\* goes on reading.
C12_FailingStatementSkipped ==
    [][(/\ Reads
        /\ flushed' # <<>>
        /\ \E k \in 1..Len(flushed') : Skipped(flushed', k, table))
       => (/\ \A k \in 1..Len(flushed') :
                RowOf(flushed'[k]) \in table' <=> ~Skipped(flushed', k, table)
           /\ table \subseteq table'
           /\ sql_transaction' = <<>>
           /\ pc' = "reading")]_vars

\* a flush has skipped a replace statement and stored the insert after it,
\* and the loop is still reading
C12_Witness ==
    /\ pc = "reading"
    /\ sql_transaction = <<>>
    /\ \E i, j \in 1..Len(flushed) :
        /\ i < j
        /\ flushed[i].kind = "replace"
        /\ flushed[j].kind # "replace"
        /\ RowOf(flushed[j]) \in table

\* C13: reading a record that lacks a required field counts it in
\* row_counter, passes no statement to the writer, leaves the pending list
\* and the table as they were, and the loop goes on reading.
C13_IncompleteRecordSkipped ==
    [][(Reads /\ ~Complete(Last(file'))) =>
            (/\ row_counter' = row_counter + 1
             /\ enq' = <<>>
             /\ sql_transaction' = sql_transaction
             /\ table' = table
             /\ pc' = "reading")]_vars

\* C14: when the query of a lookup raises while a record is read, the
\* lookup answers absence and the loop goes on reading: with the score
\* lookup failing the record is passed as an insert, with the parent lookup
\* failing the statement passed carries no parent body; and no step removes
\* or changes a committed row or gives a parent or a reply a second row.
C14_LookupFailureIsAbsence ==
    /\ [][(Reads /\ (raised'[1] \/ raised'[2])) =>
            LET row == Last(file')
                found == IF raised'[1] THEN Absent
                         ELSE find_parent(row.parent_id, table)
                expected == [kind |-> IF found # Absent THEN "has_parent" ELSE "no_parent",
                             parent_id |-> row.parent_id, comment_id |-> row.name,
                             parent |-> found, comment |-> format_data(row.body),
                             subreddit |-> row.subreddit, unix |-> row.created_utc,
                             score |-> row.score]
            IN  /\ pc' = "reading"
                /\ row_counter' = row_counter + 1
                /\ (raised'[2] /\ Qualifies(row)) => enq' = <<expected>>
                /\ raised'[1] =>
                       \A k \in 1..Len(enq') :
                           enq'[k].kind # "has_parent" /\ enq'[k].parent = Absent]_vars
    /\ [][/\ table \subseteq table'
          /\ \A r1, r2 \in table' :
                (r1.parent_id = r2.parent_id \/ r1.comment_id = r2.comment_id)
                    => r1 = r2]_vars

\* the score lookup failed for a record whose parent has a row: the insert
\* passed for it has been executed by a flush and the row is still the
\* parent's only one
C14_Witness ==
    /\ raised[2]
    /\ pc = "reading"
    /\ enq # <<>>
    /\ Len(flushed) > 0
    /\ Last(flushed) = enq[1]
    /\ \E r \in table :
        /\ RowsFor(enq[1].parent_id) = {r}
        /\ r.comment_id # enq[1].comment_id

\* C15: the first page read goes to the test files and to them only, every
\* later page to the train files and to them only.  So when the rows to
\* export have distinct timestamps and the loop has ended, the test files
\* hold the rows of the first page, the earliest ones (2 of 5 with pages of
\* 2), and the train files hold all the others, in the order of time.
C15_FirstPageHeldOut ==
    /\ [][counter' = counter + 1 =>
            IF counter = 0
            THEN /\ Lines(test_from') = ParentColumn(df')
                 /\ Lines(test_to') = CommentColumn(df')
                 /\ train_from' = <<>>
                 /\ train_to' = <<>>
            ELSE /\ Lines(train_from') = Lines(train_from) \o ParentColumn(df')
                 /\ Lines(train_to') = Lines(train_to) \o CommentColumn(df')
                 /\ test_from' = test_from
                 /\ test_to' = test_to]_vars
    /\ []((/\ xpc = "done"
           /\ \A r, q \in Wanted : r.unix = q.unix => r = q)
          => /\ Len(Exported) = Cardinality(Wanted)
             /\ Len(Lines(test_to)) =
                    (IF Cardinality(Wanted) < limit THEN Cardinality(Wanted) ELSE limit)
             /\ \A i \in 1..Len(Exported) :
                    \E r \in Wanted :
                        /\ r.comment = Exported[i]
                        /\ Cardinality({q \in Wanted : q.unix < r.unix}) = i - 1)

\* the loop has ended on a table of two full pages and one more row to
\* export, all of distinct timestamps: the test files hold one page, the
\* train files the rest
C15_Witness ==
    /\ xpc = "done"
    /\ counter = 3
    /\ Cardinality(Wanted) = 2 * limit + 1
    /\ \A r, q \in Wanted : r.unix = q.unix => r = q
    /\ Len(Lines(test_to)) = limit
    /\ Len(Lines(train_to)) = limit + 1

\* C16: in every state of the export the prompt file and the reply file of
\* a split have the same number of lines, and line i of the one is the
\* parent body, line i of the other the reply body, of one stored row.
C16_FilesAligned ==
    /\ Aligned(test_from, test_to)
    /\ Aligned(train_from, train_to)

\* two pages have gone to the train files after the one of the test files
C16_Witness ==
    /\ counter = 3
    /\ Len(Lines(test_from)) = limit
    /\ Len(Lines(train_to)) > limit
    /\ \E i \in 1..Len(train_from) : train_from[i] = "n"

\* C17: the export loop ends normally on every table: no run of it is ended
\* by an exception, in particular not on a table without a row to export
\* nor on one whose rows to export fill the pages exactly.
C17_ExportEndsNormally == xpc # "crashed"

\* C18: every line written comes from a row with a parent body and a score
\* above 0, and the lines are in the order of time: the timestamps of the
\* rows never decrease along the test file followed by the train file.
C18_SelectedInTimeOrder ==
    /\ \A i \in 1..Len(Exported) :
        \E r \in table :
            /\ r.comment = Exported[i]
            /\ r.parent # Absent
            /\ r.score > 0
    /\ \A i, j \in 1..Len(Exported) :
        i < j => RowOfLine(Exported[i]).unix <= RowOfLine(Exported[j]).unix

\* the loop has ended with lines in both splits, on a table which has a row
\* without parent body and a row of score 0 that are not later than the
\* last row written
C18_Witness ==
    /\ xpc = "done"
    /\ Lines(test_to) # <<>>
    /\ Lines(train_to) # <<>>
    /\ \E r, q \in table :
        /\ r.parent = Absent
        /\ r.score > 0
        /\ q.parent # Absent
        /\ q.score = 0
        /\ r.unix <= last_unix
        /\ q.unix <= last_unix

\* C19: when the loop has ended, every row to export has been written
\* exactly once, whatever timestamps the rows share.
C19_EveryRowOnce ==
    xpc = "done" =>
        \A r \in Wanted :
            Cardinality({i \in 1..Len(Exported) : Exported[i] = r.comment}) = 1

\* C20: the lookups read committed rows only.  A record read while the
\* insert of its parent comment is pending and not committed gets absence
\* from find_parent: the statement passed for it carries no parent body and
\* is not an insert-with-parent.  A record read when its parent comment has
\* a committed row gets exactly the reply body of that row.
C20_LookupsSeeCommittedOnly ==
    [][(Reads /\ Complete(Last(file')) /\ enq' # <<>>) =>
            LET pid == Last(file').parent_id
                pending == \E k \in 1..Len(sql_transaction) :
                                /\ sql_transaction[k].kind # "replace"
                                /\ sql_transaction[k].comment_id = pid
                committed == {r \in table : r.comment_id = pid}
            IN  /\ (pending /\ committed = {}) =>
                        (enq'[1].kind # "has_parent" /\ enq'[1].parent = Absent)
                /\ \A r \in committed : enq'[1].parent = Present(r.comment)]_vars

\* a reply to a comment was stored without a parent body because the
\* comment's insert was pending then, and a later reply to the same comment,
\* read after the commit, carries the comment's body
C20_Witness ==
    /\ enq # <<>>
    /\ \E r, q \in table :
        /\ r.comment_id = enq[1].parent_id
        /\ enq[1].parent = Present(r.comment)
        /\ q.parent_id = enq[1].parent_id
        /\ q.comment_id # enq[1].comment_id
        /\ q.parent = Absent
        /\ q.unix > r.unix

\* the normalized bodies of the dump that pass the filter
AcceptableBodies == {b \in {format_data(x) : x \in RawBodies} : acceptable(b)}

\* C21: every pending statement and every row carries a score of at least 2
\* and a reply body that passes acceptable; and reading a record whose
\* normalized body fails acceptable passes no statement to the writer,
\* whether or not its parent has a stored score.
C21_OnlyAcceptableWritten ==
    /\ [](/\ \A k \in 1..Len(sql_transaction) :
                /\ sql_transaction[k].score >= MinScore
                /\ sql_transaction[k].comment \in AcceptableBodies
           /\ \A r \in table : r.score >= MinScore /\ r.comment \in AcceptableBodies)
    /\ [][(/\ Reads
           /\ Complete(Last(file'))
           /\ format_data(Last(file').body) \notin AcceptableBodies)
          => enq' = <<>>]_vars

\* a record with a body that fails the filter was read whose score exceeds
\* the score stored for its parent, while a statement was pending
C21_Witness ==
    /\ file # <<>>
    /\ format_data(Last(file).body) \notin AcceptableBodies
    /\ enq = <<>>
    /\ sql_transaction # <<>>
    /\ \E r \in table :
        /\ r.parent_id = Last(file).parent_id
        /\ r.score < Last(file).score

\* C22: no step removes a parent from the table or lowers the score stored
\* for it: every parent that has a row before a step has one after it, with
\* a score at least as high.
C22_ScoreNeverDecreases ==
    [][\A r \in table :
          /\ RowsFor(r.parent_id)' # {}
          /\ \A q \in RowsFor(r.parent_id)' : q.score >= r.score]_vars

\* a flush has executed an insert of lower score for a parent that had a
\* row, passed because the score lookup failed, and the row is still there
C22_Witness ==
    /\ raised[2]
    /\ Len(flushed) > 0
    /\ \E r \in table :
        /\ r.parent_id = Last(flushed).parent_id
        /\ r.comment_id # Last(flushed).comment_id
        /\ r.score > Last(flushed).score
        /\ Last(flushed).kind # "replace"

\* C23: when the loop has ended and nothing is pending, paired_rows is the
\* number of stored rows that have a parent body.
C23_PairedRowsCountsStored ==
    Settled => paired_rows = Cardinality({r \in table : r.parent # Absent})

\* C24: while the cell runs a second time over the same dump, on the table
\* the first run left, no step changes the table.
C24_RerunChangesNothing ==
    [][pc = "rereading" => table' = table]_vars

\* C25: a result of format_data holds no line feed, no carriage return and
\* no two adjacent double quotes.
C25_FormatSingleLine ==
    tpc = "formatted" =>
        /\ \A i \in 1..Len(out) : out[i] # "\n" /\ out[i] # "\r"
        /\ \A i \in 1..(Len(out) - 1) : ~(out[i] = "\"" /\ out[i + 1] = "\"")

\* a string with a carriage return and three double quotes in a row was
\* normalized
C25_Witness ==
    /\ tpc = "formatted"
    /\ Len(data) = 4
    /\ data[1] = "\r"
    /\ \A i \in 2..4 : data[i] = "\""
    /\ out # data

C27_ParentBodyIsParentsReply ==
    \A r \in table :
        r.parent # Absent =>
            \E q \in table : q.comment_id = r.parent_id /\ r.parent = Present(q.comment)

\* the loop has ended with a row whose parent body differs from its own
\* reply body
C27_Witness ==
    /\ pc = "done"
    /\ \E r, q \in table :
        /\ r.parent # Absent
        /\ q.comment_id = r.parent_id
        /\ r.parent = Present(q.comment)
        /\ r.comment # q.comment

====
